---- MODULE Spec2Model ----
(***************************************************************************)
(* A model of the tech-news publishing pipeline: the draft validator with   *)
(* its persisted history (modules/validator/draft_validator.py), the       *)
(* editorial memory (modules/writer/memory.py), the article builder        *)
(* (modules/writer/article_builder.py) and the retry loop of               *)
(* run_pipeline.main.                                                       *)
(***************************************************************************)
EXTENDS Integers, Sequences, FiniteSets, TLC

VARIABLES
    config,        \* environment of the process: DRY_RUN, credentials, config files
    pc,            \* position of run_pipeline.main
    attempt,       \* loop variable of "for attempt in range(1, MAX_ATTEMPTS + 1)"
    outcome,       \* how the run ended: NONE (running), ACCEPTED, EXHAUSTED, ABORTED
    history,       \* DraftValidator.history (in memory)
    history_file,  \* data/validator/history.json
    memory_file,   \* data/memory.json
    draft_html,    \* slugs of the data/drafts/*.html files on disk
    draft_json,    \* slugs of the data/drafts/*.json files on disk
    raw_items,     \* local raw_items of main
    items,         \* local items of main
    selected,      \* local selected of main
    article,       \* local article of main / argument of decide
    decision,      \* local decision of main / result of decide
    gen_calls,     \* build_article calls made in this run
    publish_calls, \* publisher.publish calls made in this run
    accepts,       \* decide calls of this run that returned PUBLISH
    starved,       \* some attempt of this run got no batch of 3 items to generate from
    wrote,         \* files written since the current attempt (or decide call) began
    log,           \* the last status line (a check mark or a cross) main printed
    memory,        \* ArticleMemory.data of an ArticleMemory examined on its own
    peer,          \* a second process using the same history file: its DraftValidator
    remembered     \* the angles of the remember calls made on that ArticleMemory

vars == << config, pc, attempt, outcome, history, history_file, memory_file,
           draft_html, draft_json, raw_items, items, selected, article, decision,
           gen_calls, publish_calls, accepts, starved, wrote, log, memory, peer,
           remembered >>

----------------------------------------------------------------------------
(* Bounds of the model *)

\* max_history of the DraftValidator under analysis (the code's default is 50)
max_history == 2

----------------------------------------------------------------------------
(* Program constants *)

MAX_ATTEMPTS == 5

MIN_WORDS == 700

MIN_ANGLE_HISTORY == 5

RECENT_WINDOW == 10

GENERIC_PHRASE_LIMIT == 3

MIN_SENTENCES == 3

MIN_SENTENCE_LEN == 20

MIN_BATCH == 3

MIN_TITLE_LEN == 20

MAX_ITEMS == 50

----------------------------------------------------------------------------
(* Text.  A string is modelled by the text it spells (base) and the way it  *)
(* is written (form); lower(), strip() and whitespace collapsing act on the *)
(* form.                                                                    *)

Forms == {"plain", "upper", "padded", "upper_padded"}

\* str.lower()
Lower(t) ==
    [t EXCEPT !.form = CASE @ = "upper" -> "plain"
                         [] @ = "upper_padded" -> "padded"
                         [] @ = "upper_spaced" -> "spaced"
                         [] OTHER -> @]

\* str.strip()
Strip(t) ==
    [t EXCEPT !.form = CASE @ = "padded" -> "plain"
                         [] @ = "upper_padded" -> "upper"
                         [] OTHER -> @]

\* hashlib.sha256(text.encode()).hexdigest(): a digest that identifies the text
Sha256(text) == << "sha256", text >>

\* json.dumps(value, indent=2) written to a file
JsonDumps(value) == << "json", value >>

\* a path that does not exist
NoFile == << "absent" >>

Min(a, b) == IF a < b THEN a ELSE b

Max(a, b) == IF a > b THEN a ELSE b

\* seq[-n:] of Python, for n >= 1
LastN(seq, n) ==
    IF Len(seq) <= n THEN seq ELSE SubSeq(seq, Len(seq) - n + 1, Len(seq))

\* seq[:n] of Python
FirstN(seq, n) == SubSeq(seq, 1, Min(n, Len(seq)))

----------------------------------------------------------------------------
(* Drafts.  The rendered body of an article is modelled by what the         *)
(* validator measures of it: its sentence fragments (the pieces between     *)
(* '.', '!' and '?'), the boilerplate phrases it contains, and its          *)
(* whitespace-delimited tokens.                                             *)

ANGLES == << "strategic_shift", "market_signal", "user_impact",
             "industry_trend", "long_term_implication" >>

\* re.sub(r'\s+', ' ', s): runs of whitespace inside a sentence become one blank
CollapseWs(t) ==
    [t EXCEPT !.form = CASE @ = "spaced" -> "plain"
                         [] @ = "upper_spaced" -> "upper"
                         [] OTHER -> @]

\* a sentence fragment: its text and the number of characters of its stripped form
Frag(b, f, n) == [base |-> b, form |-> f, len |-> n]

\* tokens the "Related Articles" block adds to a body: 5 of the heading, 2 of
\* the closing tags, and 5 of one link to a draft whose slug is a single word
\* (the file stem is the date and the slug, its dashes turned into blanks)
LINK_BLOCK_TOKENS == 12

GoodBody ==
    [cid |-> 1,
     frags |-> << Frag(1, "plain", 60), Frag(2, "plain", 45), Frag(3, "upper", 30),
                  Frag(4, "plain", 12) >>,
     phrases |-> {},
     text_words |-> 700, markup_tokens |-> 20,
     generic_words |-> 4, tech_words |-> 2, links |-> FALSE]

ThinBody ==
    [cid |-> 2,
     frags |-> << Frag(5, "plain", 50), Frag(5, "plain", 50), Frag(6, "plain", 19) >>,
     phrases |-> {4},
     text_words |-> 680, markup_tokens |-> 15,
     generic_words |-> 0, tech_words |-> 0, links |-> FALSE]

StaleBody ==
    [cid |-> 3,
     frags |-> << Frag(7, "plain", 40), Frag(7, "upper", 40), Frag(7, "spaced", 41),
                  Frag(8, "plain", 33) >>,
     phrases |-> {1, 2, 3},
     text_words |-> 800, markup_tokens |-> 20,
     generic_words |-> 40, tech_words |-> 0, links |-> FALSE]

Contents == {GoodBody, ThinBody, StaleBody}

\* len(content.split()): every whitespace-delimited token of the markup counts
WordCount(content) ==
    content.text_words + content.markup_tokens
      + (IF content.links THEN LINK_BLOCK_TOKENS ELSE 0)

----------------------------------------------------------------------------
(* DraftValidator *)

NoDecision == [decision |-> "NONE", reasons |-> << >>, quality_score |-> << 0, 1 >>]

\* DraftValidator._load_history
LoadHistory(file) ==
    IF file = NoFile THEN << >>
    ELSE IF file[1] = "json" /\ DOMAIN file[2] = 1..Len(file[2]) THEN file[2]
    ELSE << >>

\* DraftValidator._save_history: what is written to HISTORY_PATH
SaveHistory(h) == JsonDumps(LastN(h, max_history))

\* a duplicate test that compares the titles as they are written
IsDuplicateTitleExact(h, title) ==
    \E i \in 1..Len(h) : h[i].title = title

\* a duplicate check that looks at the latest record only
IsDuplicateTitleLatest(h, title) ==
    h # << >> /\ Strip(Lower(h[Len(h)].title)) = Strip(Lower(title))

\* DraftValidator._is_duplicate_title
IsDuplicateTitle(h, title) ==
    \E i \in 1..Len(h) : Strip(Lower(h[i].title)) = Strip(Lower(title))

\* the sentences _detect_repetition keeps
QualifyingSentences(content) ==
    SelectSeq(content.frags, LAMBDA f : f.len > MIN_SENTENCE_LEN)

\* the normalized form _detect_repetition compares
NormalizedSentence(f) == CollapseWs(Lower([base |-> f.base, form |-> f.form]))

\* a repetition ratio that compares the sentences as they are written
DetectRepetitionRaw(content) ==
    LET s == QualifyingSentences(content)
        dup == {i \in 1..Len(s) :
                   \E j \in 1..(i - 1) : s[j].base = s[i].base /\ s[j].form = s[i].form}
    IN  IF Len(s) < MIN_SENTENCES THEN << 0, 1 >> ELSE << Cardinality(dup), Len(s) >>

\* a repetition ratio without the minimum number of sentences
DetectRepetitionNoMinimum(content) ==
    LET s == QualifyingSentences(content)
        dup == {i \in 1..Len(s) :
                   \E j \in 1..(i - 1) : NormalizedSentence(s[j]) = NormalizedSentence(s[i])}
    IN  IF Len(s) = 0 THEN << 0, 1 >> ELSE << Cardinality(dup), Len(s) >>

\* DraftValidator._detect_repetition, as the fraction << duplicates, len(sentences) >>
DetectRepetition(content) ==
    LET s == QualifyingSentences(content)
        dup == {i \in 1..Len(s) :
                   \E j \in 1..(i - 1) : NormalizedSentence(s[j]) = NormalizedSentence(s[i])}
    IN  IF Len(s) < MIN_SENTENCES THEN << 0, 1 >> ELSE << Cardinality(dup), Len(s) >>

\* DraftValidator._is_generic_content
IsGenericContent(content) == Cardinality(content.phrases) >= GENERIC_PHRASE_LIMIT

\* DraftValidator._calculate_quality_score, as a fraction << numerator, denominator >>:
\* 1.0 - repetition * 0.4 - (0.3 if generic) - generic_ratio * 0.2
\*     + min(tech_ratio * 100, 0.1), clamped to [0, 1]
CalculateQualityScore(content) ==
    LET rep == DetectRepetition(content)
        w == Max(WordCount(content), 1)
        den == 10 * rep[2] * w
        raw == den - 4 * rep[1] * w
                   - (IF IsGenericContent(content) THEN 3 * rep[2] * w ELSE 0)
                   - 2 * content.generic_words * rep[2]
                   + Min(1000 * content.tech_words * rep[2], rep[2] * w)
    IN  << Max(Min(raw, den), 0), den >>

\* an angle test without the minimum history size
AngleOverusedNoMinimum(h, angle) ==
    LET recent == LastN(h, RECENT_WINDOW)
        angle_count == Cardinality({i \in 1..Len(recent) : recent[i].angle = angle})
    IN  10 * angle_count > 4 * Len(recent)

\* an angle check that counts the whole history instead of its last 10 records
AngleOverusedWholeHistory(h, angle) ==
    IF Len(h) < MIN_ANGLE_HISTORY THEN FALSE
    ELSE LET angle_count == Cardinality({i \in 1..Len(h) : h[i].angle = angle})
         IN  10 * angle_count > 4 * Len(h)

\* an angle check that allows an angle up to half of the recent records
AngleOverusedHalf(h, angle) ==
    IF Len(h) < MIN_ANGLE_HISTORY THEN FALSE
    ELSE LET recent == LastN(h, RECENT_WINDOW)
             angle_count == Cardinality({i \in 1..Len(recent) : recent[i].angle = angle})
         IN  10 * angle_count > 5 * Len(recent)

\* DraftValidator._angle_overused
AngleOverused(h, angle) ==
    IF Len(h) < MIN_ANGLE_HISTORY THEN FALSE
    ELSE LET recent == LastN(h, RECENT_WINDOW)
             angle_count == Cardinality({i \in 1..Len(recent) : recent[i].angle = angle})
         IN  10 * angle_count > 4 * Len(recent)

\* a reasons list that stops at the first check that fails
ReasonsFirstOnly(h, a) ==
    LET rep == DetectRepetition(a.content)
        q == CalculateQualityScore(a.content)
    IN  IF IsDuplicateTitle(h, a.title) THEN << "duplicate_title" >>
        ELSE IF 10 * rep[1] > 3 * rep[2] THEN << "repetition" >>
        ELSE IF IsGenericContent(a.content) THEN << "generic" >>
        ELSE IF 10 * q[1] < 6 * q[2] THEN << "quality" >>
        ELSE IF AngleOverused(h, a.angle) THEN << "angle" >>
        ELSE IF WordCount(a.content) < MIN_WORDS THEN << "word_count" >>
        ELSE << >>

\* the reasons list decide builds, check by check (lines 60-91)
Reasons(h, a) ==
    LET rep == DetectRepetition(a.content)
        q == CalculateQualityScore(a.content)
    IN  (IF IsDuplicateTitle(h, a.title) THEN << "duplicate_title" >> ELSE << >>)
        \o (IF 10 * rep[1] > 3 * rep[2] THEN << "repetition" >> ELSE << >>)
        \o (IF IsGenericContent(a.content) THEN << "generic" >> ELSE << >>)
        \o (IF 10 * q[1] < 6 * q[2] THEN << "quality" >> ELSE << >>)
        \o (IF AngleOverused(h, a.angle) THEN << "angle" >> ELSE << >>)
        \o (IF WordCount(a.content) < MIN_WORDS THEN << "word_count" >> ELSE << >>)

\* the characters of a body: the text it was generated as, with or without the
\* block of links
BodyText(content) == [cid |-> content.cid, links |-> content.links]

\* the entry _record_article builds (its "date" is written and never read)
Entry(title, content, angle) ==
    [title |-> title,
     title_hash |-> Sha256(title),
     content_hash |-> Sha256(BodyText(content)),
     angle |-> angle,
     word_count |-> WordCount(content)]

\* a _record_article that evicts from the list in memory as it appends
RecordArticleEvicting(h, title, content, angle) ==
    LastN(Append(h, Entry(title, content, angle)), max_history)

\* DraftValidator._record_article: the history after self.history.append(entry)
RecordArticle(h, title, content, angle) == Append(h, Entry(title, content, angle))

\* a decide that records the article before it tests the reasons
DecideRecordFirst(a, w) ==
    LET reasons == Reasons(history, a)
        q == CalculateQualityScore(a.content)
    IN  /\ history' = RecordArticle(history, a.title, a.content, a.angle)
        /\ history_file' = SaveHistory(history')
        /\ wrote' = w \cup {"history"}
        /\ decision' = [decision |-> IF reasons # << >> THEN "HOLD" ELSE "PUBLISH",
                        reasons |-> reasons, quality_score |-> q]

\* a decide that lets a draft through when its only fault is its length
DecideLenient(a, w) ==
    LET reasons == Reasons(history, a)
        q == CalculateQualityScore(a.content)
    IN  IF reasons # << >> /\ reasons # << "word_count" >>
        THEN /\ decision' = [decision |-> "HOLD", reasons |-> reasons, quality_score |-> q]
             /\ wrote' = w
             /\ UNCHANGED << history, history_file >>
        ELSE /\ history' = RecordArticle(history, a.title, a.content, a.angle)
             /\ history_file' = SaveHistory(history')
             /\ wrote' = w \cup {"history"}
             /\ decision' = [decision |-> "PUBLISH", reasons |-> reasons,
                             quality_score |-> q]

\* DraftValidator.decide(a); w is the set of files already written when decide is
\* called.  HISTORY_PATH is a fixed path in a directory the module creates when it
\* is imported: the write of _save_history is taken to succeed.
Decide(a, w) ==
    LET reasons == Reasons(history, a)
        q == CalculateQualityScore(a.content)
    IN  IF reasons # << >>
        THEN /\ decision' = [decision |-> "HOLD", reasons |-> reasons, quality_score |-> q]
             /\ wrote' = w
             /\ UNCHANGED << history, history_file >>
        ELSE /\ history' = RecordArticle(history, a.title, a.content, a.angle)
             /\ history_file' = SaveHistory(history')
             /\ wrote' = w \cup {"history"}
             /\ decision' = [decision |-> "PUBLISH", reasons |-> << >>,
                             quality_score |-> q]

----------------------------------------------------------------------------
(* News items *)

Title(b, f) == [base |-> b, form |-> f]

\* len(title) of the titles the feeds deliver, and the keywords (of the lists in
\* selector.py, angles.py and authors.py) each contains as a substring
TitleChars ==
    [b \in {"eu_ai_policy", "startup_raises", "chip_roadmap", "new_phone", "gadget_week",
            "phone_review", "brief"} |->
        CASE b = "eu_ai_policy" -> 41
          [] b = "phone_review" -> 36
          [] b = "startup_raises" -> 38
          [] b = "chip_roadmap" -> 33
          [] b = "new_phone" -> 27
          [] b = "gadget_week" -> 20
          [] OTHER -> 12]

TitleKeywords ==
    [b \in DOMAIN TitleChars |->
        CASE b = "eu_ai_policy" -> {"ai", "policy"}
          [] b = "startup_raises" -> {"raises", "ai"}
          [] b = "chip_roadmap" -> {"roadmap"}
          [] b = "phone_review" -> {"review"}
          [] OTHER -> {}]

\* len(title): surrounding blanks count
TitleLen(t) ==
    TitleChars[t.base] + (IF t.form \in {"padded", "upper_padded"} THEN 2 ELSE 0)

\* any(k in title.lower() for k in keywords)
AnyKeyword(t, keywords) == TitleKeywords[t.base] \cap keywords # {}

Item(b, f, path, cat, auth) ==
    [title |-> Title(b, f), link |-> [path |-> path, query |-> FALSE],
     category |-> cat, source_authority |-> auth]

\* the same item as another feed delivers it: its link carries a query string
Tracked(item) == [item EXCEPT !.link.query = TRUE]

\* the pools fetch_all may return (authority in hundredths)
Pools ==
    { << >>,
      << Item("brief", "plain", 1, "mobile", 90) >>,
      << Item("eu_ai_policy", "plain", 2, "policy", 90),
         Tracked(Item("eu_ai_policy", "upper", 2, "policy", 90)),
         Item("brief", "plain", 1, "mobile", 90),
         Item("new_phone", "plain", 3, "mobile", 60) >>,
      << Item("eu_ai_policy", "upper", 2, "policy", 90),
         Item("startup_raises", "plain", 4, "business", 50),
         Item("new_phone", "plain", 3, "mobile", 60) >> }

\* the bodies the generator and the renderer may return
Generated == {GoodBody, ThinBody}

----------------------------------------------------------------------------
(* modules/fetcher/cleaner.py *)

\* normalize_url: scheme://host/path, query and fragment dropped
NormalizeUrl(link) == [link EXCEPT !.query = FALSE]

\* a deduplicate that keeps the last item of every key
DeduplicateKeepLast(seq) ==
    LET key(i) == << Lower(seq[i].title), NormalizeUrl(seq[i].link) >>
        keep == {i \in 1..Len(seq) : \A j \in (i + 1)..Len(seq) : key(j) # key(i)}
        idx(n) == CHOOSE i \in keep : Cardinality({j \in keep : j < i}) = n - 1
    IN  [n \in 1..Cardinality(keep) |-> seq[idx(n)]]

\* deduplicate: the first item of every (title.lower(), normalize_url(link)) key
Deduplicate(seq) ==
    LET key(i) == << Lower(seq[i].title), NormalizeUrl(seq[i].link) >>
        keep == {i \in 1..Len(seq) : \A j \in 1..(i - 1) : key(j) # key(i)}
        idx(n) == CHOOSE i \in keep : Cardinality({j \in keep : j < i}) = n - 1
    IN  [n \in 1..Cardinality(keep) |-> seq[idx(n)]]

\* clean_items
CleanItems(seq) ==
    LET long == SelectSeq(seq, LAMBDA it : ~(TitleLen(it.title) < MIN_TITLE_LEN))
    IN  Deduplicate([i \in 1..Len(long) |-> [long[i] EXCEPT !.link = NormalizeUrl(@)]])

----------------------------------------------------------------------------
(* modules/selector/selector.py *)

TARGET_TOTAL == 45

CATEGORY_QUOTA == 5

\* a score without its floor
ScoreItemNoFloor(item) ==
    2 * item.source_authority
      + (IF AnyKeyword(item.title, {"regulation", "policy", "security", "ai", "privacy"})
         THEN 60 ELSE 0)
      + (IF AnyKeyword(item.title, {"raises", "funding", "acquires", "ipo"}) THEN 40 ELSE 0)
      - (IF AnyKeyword(item.title, {"review", "hands-on", "leak", "rumor"}) THEN 50 ELSE 0)

\* _score_item, in hundredths
ScoreItem(item) ==
    LET base == 2 * item.source_authority
                + (IF AnyKeyword(item.title, {"regulation", "policy", "security", "ai",
                                              "privacy"}) THEN 60 ELSE 0)
                + (IF AnyKeyword(item.title, {"raises", "funding", "acquires", "ipo"})
                   THEN 40 ELSE 0)
                - (IF AnyKeyword(item.title, {"review", "hands-on", "leak", "rumor"})
                   THEN 50 ELSE 0)
    IN  Max(base, 10)

\* item["weight"] = _score_item(item)
Weighted(item) ==
    [title |-> item.title, link |-> item.link, category |-> item.category,
     source_authority |-> item.source_authority, weight |-> ScoreItem(item)]

\* a sort that puts the later of two items of equal weight first
SortByWeightLastFirst(seq) ==
    LET rank(i) == Cardinality({j \in 1..Len(seq) :
                        \/ seq[j].weight > seq[i].weight
                        \/ (seq[j].weight = seq[i].weight /\ j > i)}) + 1
    IN  [n \in 1..Len(seq) |-> seq[CHOOSE i \in 1..Len(seq) : rank(i) = n]]

\* sorted(seq, key=weight, reverse=True): stable, equal weights keep their order
SortByWeight(seq) ==
    LET rank(i) == Cardinality({j \in 1..Len(seq) :
                        \/ seq[j].weight > seq[i].weight
                        \/ (seq[j].weight = seq[i].weight /\ j < i)}) + 1
    IN  [n \in 1..Len(seq) |-> seq[CHOOSE i \in 1..Len(seq) : rank(i) = n]]

\* the keys of grouped, in insertion order
CategoryOrder(seq) ==
    LET firsts == { i \in 1..Len(seq) :
                      \A j \in 1..(i - 1) : seq[j].category # seq[i].category }
    IN  [n \in 1..Cardinality(firsts) |->
            seq[CHOOSE i \in firsts : Cardinality({ j \in firsts : j <= i }) = n].category]

\* a category-first pass that takes the head of each bucket in feed order
RECURSIVE QuotaFillUnsorted(_, _, _)
QuotaFillUnsorted(seq, cats, n) ==
    IF n = 0 THEN << >>
    ELSE LET bucket == SelectSeq(seq, LAMBDA it : it.category = cats[n])
         IN  QuotaFillUnsorted(seq, cats, n - 1)
                \o FirstN(bucket, Min(CATEGORY_QUOTA, Len(bucket)))

\* the category-first pass over the first n categories
RECURSIVE QuotaFill(_, _, _)
QuotaFill(seq, cats, n) ==
    IF n = 0 THEN << >>
    ELSE LET bucket == SortByWeight(SelectSeq(seq, LAMBDA it : it.category = cats[n]))
         IN  QuotaFill(seq, cats, n - 1) \o FirstN(bucket, Min(CATEGORY_QUOTA, Len(bucket)))

\* a selection whose top-up draws from all the items, selected or not
SelectRankedTopUpAll(seq) ==
    IF seq = << >> THEN << >>
    ELSE LET w == [i \in 1..Len(seq) |-> Weighted(seq[i])]
             cats == CategoryOrder(w)
             first == QuotaFill(w, cats, Len(cats))
         IN  IF Len(first) < TARGET_TOTAL
             THEN first \o FirstN(SortByWeight(w), TARGET_TOTAL - Len(first))
             ELSE first

\* a selection that returns a placeholder item when nothing was selected
SelectRankedPlaceholder(seq) ==
    LET w == [i \in 1..Len(seq) |-> Weighted(seq[i])]
        cats == CategoryOrder(w)
        first == QuotaFill(w, cats, Len(cats))
    IN  IF first = << >>
        THEN << [title |-> Title("brief", "plain"), link |-> [path |-> 0, query |-> FALSE],
                 category |-> "unknown", source_authority |-> 50, weight |-> 100] >>
        ELSE first

\* a selection that stops after the category-first pass
SelectRankedNoTopUp(seq) ==
    IF seq = << >> THEN << >>
    ELSE LET w == [i \in 1..Len(seq) |-> Weighted(seq[i])]
             cats == CategoryOrder(w)
         IN  QuotaFill(w, cats, Len(cats))

\* select_news before the final random.shuffle
SelectRanked(seq) ==
    IF seq = << >> THEN << >>
    ELSE LET w == [i \in 1..Len(seq) |-> Weighted(seq[i])]
             cats == CategoryOrder(w)
             first == QuotaFill(w, cats, Len(cats))
             chosen == {first[i] : i \in 1..Len(first)}
             remaining == SortByWeight(SelectSeq(w, LAMBDA it : it \notin chosen))
         IN  IF Len(first) < TARGET_TOTAL
             THEN first \o FirstN(remaining, TARGET_TOTAL - Len(first))
             ELSE first

\* the orders random.shuffle may leave a list in
Shuffles(seq) ==
    {[i \in 1..Len(seq) |-> seq[p[i]]] :
        p \in {q \in [1..Len(seq) -> 1..Len(seq)] :
                  \A i, j \in 1..Len(seq) : q[i] = q[j] => i = j}}

\* select_news: the lists it may return
SelectNews(seq) == Shuffles(SelectRanked(seq))

----------------------------------------------------------------------------
(* modules/writer/angles.py, authors.py, memory.py *)

\* choose_angle: the angles it may return for a batch
ChooseAngle(batch) ==
    LET any(keywords) == \E i \in 1..Len(batch) : AnyKeyword(batch[i].title, keywords)
    IN  IF batch = << >> THEN {"industry_trend"}
        ELSE IF any({"regulation", "policy", "law", "ban"}) THEN {"strategic_shift"}
        ELSE IF any({"funding", "raises", "investment", "acquisition"}) THEN {"market_signal"}
        ELSE IF any({"user", "consumer", "customer", "feature"}) THEN {"user_impact"}
        ELSE IF any({"2026", "future", "next", "roadmap"}) THEN {"long_term_implication"}
        ELSE {ANGLES[i] : i \in 1..Len(ANGLES)}

CORE_AUTHORS ==
    << [name |-> "Alex Morgan", topics |-> {"ai", "policy", "regulation", "government"}],
       [name |-> "Sarah Klein", topics |-> {"cloud", "infrastructure", "data", "systems"}],
       [name |-> "Michael Chen", topics |-> {"enterprise", "business", "security", "platform"}] >>

EXTENDED_AUTHORS ==
    << [name |-> "Emily Rodriguez", topics |-> {"health", "biotech", "medical"}],
       [name |-> "Daniel Park", topics |-> {"consumer", "apps", "ui", "assistant"}] >>

\* select_author(title, angle, used_authors, allow_extended=True): the names it may return
SelectAuthor(title, used) ==
    LET on_topic(a) == AnyKeyword(title, a.topics)
        unused(a) == \A i \in 1..Len(used) : used[i] # a.name
        \* the author a "for ... if ...: return author" loop returns, if any
        first(list, ok) == {list[i].name : i \in {j \in ok : \A k \in ok : j <= k}}
        core_topic == {i \in 1..Len(CORE_AUTHORS) : on_topic(CORE_AUTHORS[i])}
        ext_fresh == {i \in 1..Len(EXTENDED_AUTHORS) :
                         on_topic(EXTENDED_AUTHORS[i]) /\ unused(EXTENDED_AUTHORS[i])}
        core_unused == {i \in 1..Len(CORE_AUTHORS) : unused(CORE_AUTHORS[i])}
    IN  IF core_topic # {} THEN first(CORE_AUTHORS, core_topic)
        ELSE IF ext_fresh # {} THEN first(EXTENDED_AUTHORS, ext_fresh)
        ELSE IF core_unused # {} THEN first(CORE_AUTHORS, core_unused)
        ELSE {CORE_AUTHORS[i].name : i \in 1..Len(CORE_AUTHORS)}

\* no ArticleMemory has been constructed
NoMemory == [unset |-> TRUE]

\* the second process has not started
NoPeer == [started |-> FALSE, history |-> << >>, decision |-> NoDecision,
           title |-> [base |-> "none", form |-> "plain"]]

\* the data of a memory file that does not exist, after the schema upgrade
EmptyMemory ==
    [titles |-> << >>, angles |-> << >>, authors |-> << >>, last_updated |-> "None"]

\* a file that is not JSON, and a JSON file of another shape than the one expected
\* (an object where a list is expected, or the reverse): its content is never read
Unparseable == << "garbage" >>

OtherJson == << "json_other" >>

\* json.loads succeeds and the schema upgrade can call data.setdefault
MemoryLoads(file) == file = NoFile \/ file[1] = "json"

\* a load that takes the stored object as it is, without the schema upgrade
LoadMemoryAsStored(file) == IF file = NoFile THEN [k \in {} |-> << >>] ELSE file[2]

\* ArticleMemory._load_and_upgrade, for a file that loads: the stored object (or {})
\* with a default for each of the four fields it lacks
LoadMemory(file) ==
    LET stored == IF file = NoFile THEN [k \in {} |-> << >>] ELSE file[2]
    IN  [k \in DOMAIN stored \cup DOMAIN EmptyMemory |->
            IF k \in DOMAIN stored THEN stored[k] ELSE EmptyMemory[k]]

\* ArticleMemory._append on one list
MemAppend(list, value) ==
    LastN(IF \E i \in 1..Len(list) : list[i] = value THEN list ELSE Append(list, value),
          MAX_ITEMS)

\* ArticleMemory.angle_usage_ratio, as the pair << numerator, denominator >>
AngleUsageRatio(data, angle) ==
    IF data.angles = << >> THEN << 0, 1 >>
    ELSE << Cardinality({ i \in 1..Len(data.angles) : data.angles[i] = angle }),
            Len(data.angles) >>

\* ArticleMemory.remember: the data it saves
Remember(data, title, angle, author) ==
    [data EXCEPT !.titles = MemAppend(@, title),
                 !.angles = MemAppend(@, angle),
                 !.authors = MemAppend(@, author),
                 !.last_updated = "now"]

----------------------------------------------------------------------------
(* run_pipeline.py *)

GoodConfig ==
    [dry_run |-> FALSE, credentials |-> TRUE, api_key |-> TRUE,
     sources_yaml |-> TRUE, rules_yaml |-> TRUE]

\* the environments a run may start in
Configs ==
    { GoodConfig,
      [GoodConfig EXCEPT !.dry_run = TRUE, !.credentials = FALSE],
      [GoodConfig EXCEPT !.credentials = FALSE],
      [GoodConfig EXCEPT !.api_key = FALSE],
      [GoodConfig EXCEPT !.sources_yaml = FALSE],
      [GoodConfig EXCEPT !.rules_yaml = FALSE] }

NoArticle == [title |-> Title("none", "plain"), content |-> GoodBody,
              angle |-> "unknown", word_count |-> 0]

\* slugify: lower-cased, blanks turned into dashes
Slugify(title) == Lower(title)

\* inject_internal_links: the body with the "Related Articles" block
WithLinks(content) == [content EXCEPT !.links = TRUE]

\* the state of a process that has just started
Start ==
    /\ pc = "init"
    /\ attempt = 0
    /\ outcome = "NONE"
    /\ history = << >>
    /\ raw_items = << >>
    /\ items = << >>
    /\ selected = << >>
    /\ article = NoArticle
    /\ decision = NoDecision
    /\ gen_calls = 0
    /\ publish_calls = 0
    /\ accepts = 0
    /\ starved = FALSE
    /\ log = "started"
    /\ memory = NoMemory
    /\ peer = NoPeer
    /\ remembered = << >>
    /\ wrote = {}

Init ==
    /\ config \in Configs
    /\ history_file = NoFile
    /\ memory_file = NoFile
    /\ draft_html = {}
    /\ draft_json = {}
    /\ Start

\* a loop that runs one attempt more: range(1, MAX_ATTEMPTS + 2)
ContinueOneMore ==
    /\ IF attempt < MAX_ATTEMPTS + 1
       THEN /\ attempt' = attempt + 1
            /\ pc' = "fetch"
            /\ outcome' = outcome
       ELSE /\ attempt' = attempt
            /\ pc' = "done"
            /\ outcome' = "EXHAUSTED"
    /\ raw_items' = << >>
    /\ items' = << >>
    /\ selected' = << >>
    /\ article' = NoArticle

\* a loop body without its except clause: the exception ends the run
ContinueReturn ==
    /\ attempt' = attempt
    /\ pc' = "done"
    /\ outcome' = "ABORTED"
    /\ raw_items' = << >>
    /\ items' = << >>
    /\ selected' = << >>
    /\ article' = NoArticle

\* a retry that selects again from the items of the attempt before
ContinueReselect ==
    /\ IF attempt < MAX_ATTEMPTS
       THEN /\ attempt' = attempt + 1
            /\ pc' = "select"
            /\ outcome' = outcome
       ELSE /\ attempt' = attempt
            /\ pc' = "done"
            /\ outcome' = "EXHAUSTED"
    /\ raw_items' = raw_items
    /\ items' = items
    /\ selected' = << >>
    /\ article' = NoArticle

\* "continue" (and the except clause of the loop body): the next attempt, or the
\* end of the loop and the PIPELINE FAILED report.  The locals raw_items, items,
\* selected and article are rebound before they are read again: they are cleared.
Continue ==
    /\ IF attempt < MAX_ATTEMPTS
       THEN /\ attempt' = attempt + 1
            /\ pc' = "fetch"
            /\ outcome' = outcome
       ELSE /\ attempt' = attempt
            /\ pc' = "done"
            /\ outcome' = "EXHAUSTED"
    /\ raw_items' = << >>
    /\ items' = << >>
    /\ selected' = << >>
    /\ article' = NoArticle

\* the locals of the loop body are left as they are
KeepLocals == UNCHANGED << raw_items, items, selected, article >>

\* an initialization that constructs the publisher in a dry run too
InitializeWithPublisher ==
    /\ pc = "init"
    /\ history' = LoadHistory(history_file)
    /\ IF ~config.credentials
       THEN /\ pc' = "done"
            /\ outcome' = "ABORTED"
            /\ attempt' = attempt
       ELSE /\ pc' = "fetch"
            /\ attempt' = 1
            /\ outcome' = outcome
    /\ UNCHANGED << config, history_file, memory_file, draft_html, draft_json,
                    raw_items, items, selected, article, decision, gen_calls,
                    publish_calls, accepts, wrote >>
    /\ UNCHANGED << starved, memory, peer, remembered >>
    /\ log' = (IF ~config.credentials THEN "init_failed"
               ELSE "initialized")

\* lines 76-98: validator = DraftValidator(), publisher = BloggerPublisher(BLOG_ID)
Initialize ==
    /\ pc = "init"
    /\ history' = LoadHistory(history_file)
    /\ IF ~config.dry_run /\ ~config.credentials
       THEN /\ pc' = "done"
            /\ outcome' = "ABORTED"
            /\ attempt' = attempt
       ELSE /\ pc' = "fetch"
            /\ attempt' = 1
            /\ outcome' = outcome
    /\ UNCHANGED << config, history_file, memory_file, draft_html, draft_json,
                    raw_items, items, selected, article, decision, gen_calls,
                    publish_calls, accepts, wrote >>
    /\ UNCHANGED << starved, memory, peer, remembered >>
    /\ log' = (IF ~config.dry_run /\ ~config.credentials THEN "init_failed"
               ELSE "initialized")

\* Step 1, fetch_all() raises: sources.yaml is missing, or the feeds fail
FetchFails ==
    /\ pc = "fetch"
    /\ wrote' = {}
    /\ decision' = NoDecision
    /\ Continue
    /\ UNCHANGED << config, history, history_file, memory_file, draft_html,
                    draft_json, gen_calls, publish_calls, accepts >>
    /\ starved' = TRUE
    /\ log' = "error"
    /\ UNCHANGED << memory, peer, remembered >>

\* Step 1, fetch_all() returns a pool
Fetch ==
    /\ pc = "fetch"
    /\ config.sources_yaml
    /\ wrote' = {}
    /\ decision' = NoDecision
    /\ \E pool \in Pools :
          IF pool = << >>
          THEN Continue /\ starved' = TRUE /\ log' = "no_items"
          ELSE /\ raw_items' = pool
               /\ log' = "fetched"
               /\ UNCHANGED starved
               /\ pc' = "clean"
               /\ UNCHANGED << attempt, outcome, items, selected, article >>
    /\ UNCHANGED << config, history, history_file, memory_file, draft_html,
                    draft_json, gen_calls, publish_calls, accepts >>
    /\ UNCHANGED << memory, peer, remembered >>

\* a Step 2 that raises when cleaning leaves no item
CleanStrict ==
    /\ pc = "clean"
    /\ IF CleanItems(raw_items) = << >>
       THEN Continue /\ starved' = TRUE /\ log' = "error"
       ELSE /\ UNCHANGED starved
            /\ log' = "cleaned"
            /\ items' = CleanItems(raw_items)
            /\ raw_items' = raw_items
            /\ pc' = "select"
            /\ UNCHANGED << attempt, outcome, selected, article >>
    /\ UNCHANGED << config, history, history_file, memory_file, draft_html,
                    draft_json, decision, gen_calls, publish_calls, accepts, wrote >>
    /\ UNCHANGED << memory, peer, remembered >>

\* Step 2, clean_items(raw_items): the kept items are normalized in place
Clean ==
    /\ pc = "clean"
    /\ IF CleanItems(raw_items) = << >>
       THEN Continue /\ starved' = TRUE /\ log' = "no_clean_items"
       ELSE /\ UNCHANGED starved
            /\ log' = "cleaned"
            /\ items' = CleanItems(raw_items)
            /\ raw_items' = [i \in 1..Len(raw_items) |->
                                IF TitleLen(raw_items[i].title) < MIN_TITLE_LEN
                                THEN raw_items[i]
                                ELSE [raw_items[i] EXCEPT !.link = NormalizeUrl(@)]]
            /\ pc' = "select"
            /\ UNCHANGED << attempt, outcome, selected, article >>
    /\ UNCHANGED << config, history, history_file, memory_file, draft_html,
                    draft_json, decision, gen_calls, publish_calls, accepts, wrote >>
    /\ UNCHANGED << memory, peer, remembered >>

\* Step 3, select_news(items): every item gets its weight
Select ==
    /\ pc = "select"
    /\ \E sel \in SelectNews(items) :
          IF Len(sel) < MIN_BATCH
          THEN Continue /\ starved' = TRUE /\ log' = "few_selected"
          ELSE /\ UNCHANGED starved
               /\ log' = "selected"
               /\ selected' = sel
               /\ items' = [i \in 1..Len(items) |-> Weighted(items[i])]
               /\ pc' = "build"
               /\ UNCHANGED << attempt, outcome, raw_items, article >>
    /\ UNCHANGED << config, history, history_file, memory_file, draft_html,
                    draft_json, decision, gen_calls, publish_calls, accepts, wrote >>
    /\ UNCHANGED << memory, peer, remembered >>

\* Step 4, build_article(selected[:3]) raises: the rules file or the API key is
\* missing, or the generator fails
BuildFails ==
    /\ pc = "build"
    /\ gen_calls' = gen_calls + 1
    /\ Continue
    /\ UNCHANGED << config, history, history_file, memory_file, draft_html,
                    draft_json, decision, publish_calls, accepts, wrote >>
    /\ UNCHANGED << starved, memory, peer, remembered >>
    /\ log' = "error"

\* Step 4, build_article(selected[:3]) returns an article (memory.remember included)
Build ==
    /\ pc = "build"
    /\ config.rules_yaml /\ config.api_key
    /\ MemoryLoads(memory_file)
    /\ gen_calls' = gen_calls + 1
    /\ LET batch == FirstN(selected, MIN_BATCH)
           data == LoadMemory(memory_file)
           title == batch[1].title
       IN  \E angle \in ChooseAngle(batch), author \in SelectAuthor(title, data.authors),
              content \in Generated :
              /\ memory_file' = JsonDumps(Remember(data, title, angle, author))
              /\ article' = [title |-> title, content |-> content, angle |-> angle,
                             word_count |-> WordCount(content)]
    /\ wrote' = wrote \cup {"memory"}
    /\ pc' = "links"
    /\ UNCHANGED << config, attempt, outcome, history, history_file, draft_html,
                    draft_json, raw_items, items, selected, decision, publish_calls,
                    accepts >>
    /\ UNCHANGED << starved, memory, peer, remembered >>
    /\ log' = "generated"

\* Step 5, inject_internal_links(article["content"])
Links ==
    /\ pc = "links"
    /\ \/ article' = article
       \/ draft_html # {} /\ article' = [article EXCEPT !.content = WithLinks(@)]
    /\ pc' = "validate"
    /\ UNCHANGED << config, attempt, outcome, history, history_file, memory_file,
                    draft_html, draft_json, raw_items, items, selected, decision,
                    gen_calls, publish_calls, accepts, wrote >>
    /\ UNCHANGED << starved, memory, peer, remembered >>
    /\ log' = "linked"

\* Step 6, validator.decide(article), and the test of its decision
Validate ==
    /\ pc = "validate"
    /\ Decide(article, wrote)
    /\ IF decision'.decision = "PUBLISH"
       THEN /\ pc' = "save_html"
            /\ accepts' = accepts + 1
            /\ UNCHANGED << attempt, outcome >>
            /\ KeepLocals
       ELSE /\ Continue
            /\ accepts' = accepts
    /\ UNCHANGED << config, memory_file, draft_html, draft_json, gen_calls,
                    publish_calls >>
    /\ UNCHANGED << starved, memory, peer, remembered >>
    /\ log' = (IF decision'.decision = "PUBLISH" THEN "accepted" ELSE "rejected")

\* Step 7, save_draft: html_path.write_text succeeds or raises
SaveHtml ==
    /\ pc = "save_html"
    /\ \/ /\ draft_html' = draft_html \cup {Slugify(article.title)}
          /\ wrote' = wrote \cup {"html"}
          /\ pc' = "save_json"
          /\ log' = log
          /\ UNCHANGED << attempt, outcome >>
          /\ KeepLocals
       \/ /\ Continue
          /\ log' = "error"
          /\ UNCHANGED << draft_html, wrote >>
    /\ UNCHANGED << config, history, history_file, memory_file, draft_json,
                    decision, gen_calls, publish_calls, accepts >>
    /\ UNCHANGED << starved, memory, peer, remembered >>

\* Step 7, save_draft: json_path.write_text succeeds or raises; a dry run ends here
SaveJson ==
    /\ pc = "save_json"
    /\ \/ /\ draft_json' = draft_json \cup {Slugify(article.title)}
          /\ wrote' = wrote \cup {"json"}
          /\ IF config.dry_run
             THEN pc' = "done" /\ outcome' = "ACCEPTED" /\ log' = "dry_run_complete"
             ELSE pc' = "publish" /\ outcome' = outcome /\ log' = "saved"
          /\ attempt' = attempt
          /\ KeepLocals
       \/ /\ Continue
          /\ log' = "error"
          /\ UNCHANGED << draft_json, wrote >>
    /\ UNCHANGED << config, history, history_file, memory_file, draft_html,
                    decision, gen_calls, publish_calls, accepts >>
    /\ UNCHANGED << starved, memory, peer, remembered >>

\* Step 8, publisher.publish(article) inside its own try/except, then SUCCESS
Publish ==
    /\ pc = "publish"
    /\ publish_calls' = publish_calls + 1
    /\ pc' = "done"
    /\ outcome' = "ACCEPTED"
    /\ log' \in {"published", "publish_failed"}
    /\ UNCHANGED << config, attempt, history, history_file, memory_file,
                    draft_html, draft_json, raw_items, items, selected, article,
                    decision, gen_calls, accepts, wrote >>
    /\ UNCHANGED << starved, memory, peer, remembered >>

Next ==
    \/ Initialize
    \/ FetchFails
    \/ Fetch
    \/ Clean
    \/ Select
    \/ BuildFails
    \/ Build
    \/ Links
    \/ Validate
    \/ SaveHtml
    \/ SaveJson
    \/ Publish

Spec == Init /\ [][Next]_vars

\* ---------------------------------------------------------------------------
\* A run that starts on a disk whose validation history or editorial memory is
\* not what the program wrote: text that json.loads rejects, or JSON of another
\* shape (src/modules/validator/draft_validator.py:30-42,
\* src/modules/writer/memory.py:22-34).
\* ---------------------------------------------------------------------------

\* the (history file, memory file) pairs a run starts from
StoredFiles ==
    { << Unparseable, NoFile >>, << OtherJson, NoFile >>,
      << NoFile, Unparseable >>, << NoFile, OtherJson >> }

InitStorage ==
    /\ config = GoodConfig
    /\ \E files \in StoredFiles :
          /\ history_file = files[1]
          /\ memory_file = files[2]
    /\ draft_html = {}
    /\ draft_json = {}
    /\ Start

SpecStorage == InitStorage /\ [][Next]_vars

----------------------------------------------------------------------------
(* A DraftValidator on its own: decide is called with any draft, and the     *)
(* process may be restarted, which loads the history from its file.          *)

\* the titles, bodies and angles of the drafts decide is called with
DraftTitles ==
    { Title("eu_ai_policy", "plain"), Title("eu_ai_policy", "upper_padded"),
      Title("startup_raises", "plain"), Title("new_phone", "upper") }

DraftBodies == Contents \cup {WithLinks(ThinBody)}

DraftAngles == {"strategic_shift", "market_signal"}

Drafts ==
    {[title |-> t, content |-> c, angle |-> g, word_count |-> WordCount(c)] :
        t \in DraftTitles, c \in DraftBodies, g \in DraftAngles}

InitValidator ==
    /\ config = GoodConfig
    /\ history_file = NoFile
    /\ memory_file = NoFile
    /\ draft_html = {}
    /\ draft_json = {}
    /\ Start

\* validator.decide(a) for any draft a
VDecide ==
    /\ \E a \in Drafts :
          /\ article' = a
          /\ Decide(a, {})
    /\ UNCHANGED << config, pc, attempt, outcome, memory_file, draft_html, draft_json,
                    raw_items, items, selected, gen_calls, publish_calls, accepts,
                    starved, log, memory, peer, remembered >>

\* the process ends and a new one runs DraftValidator()
VRestart ==
    /\ history' = LoadHistory(history_file)
    /\ article' = NoArticle
    /\ decision' = NoDecision
    /\ wrote' = {}
    /\ UNCHANGED << config, pc, attempt, outcome, history_file, memory_file, draft_html,
                    draft_json, raw_items, items, selected, gen_calls, publish_calls,
                    accepts, starved, log, memory, peer, remembered >>

NextValidator == VDecide \/ VRestart

SpecValidator == InitValidator /\ [][NextValidator]_vars

\* ---------------------------------------------------------------------------
\* Two pipeline processes on one data directory. Each constructs its own
\* DraftValidator, which reads data/validator_history.json once, and each decide
\* call works on the list in the process's memory and rewrites the whole file
\* (src/modules/validator/draft_validator.py:26-50, 209-227). The code takes no
\* lock, so the steps of the two processes interleave freely. The first process
\* uses history, article and decision; the second one uses peer.
\* ---------------------------------------------------------------------------

\* first process: validator = DraftValidator()
PStart ==
    /\ pc = "init"
    /\ history' = LoadHistory(history_file)
    /\ pc' = "validate"
    /\ UNCHANGED << config, attempt, outcome, history_file, memory_file, draft_html,
                    draft_json, raw_items, items, selected, article, decision,
                    gen_calls, publish_calls, accepts, starved, wrote, log, memory,
                    peer, remembered >>

\* first process: validator.decide(article)
PDecide ==
    /\ pc = "validate"
    /\ \E a \in Drafts :
          /\ article' = a
          /\ Decide(a, wrote)
    /\ pc' = "done"
    /\ UNCHANGED << config, attempt, outcome, memory_file, draft_html, draft_json,
                    raw_items, items, selected, gen_calls, publish_calls, accepts,
                    starved, log, memory, peer, remembered >>

\* second process: validator = DraftValidator()
QStart ==
    /\ ~peer.started
    /\ peer' = [peer EXCEPT !.started = TRUE, !.history = LoadHistory(history_file)]
    /\ UNCHANGED << config, pc, attempt, outcome, history, history_file, memory_file,
                    draft_html, draft_json, raw_items, items, selected, article,
                    decision, gen_calls, publish_calls, accepts, starved, wrote, log,
                    memory, remembered >>

\* second process: validator.decide(article)
QDecide ==
    /\ peer.started
    /\ peer.decision = NoDecision
    /\ \E a \in Drafts :
          LET reasons == Reasons(peer.history, a)
              q == CalculateQualityScore(a.content)
              recorded == RecordArticle(peer.history, a.title, a.content, a.angle)
          IN  IF reasons # << >>
              THEN /\ peer' = [peer EXCEPT !.title = a.title,
                                  !.decision = [decision |-> "HOLD", reasons |-> reasons,
                                                quality_score |-> q]]
                   /\ UNCHANGED << history_file, wrote >>
              ELSE /\ peer' = [peer EXCEPT !.title = a.title,
                                  !.history = recorded,
                                  !.decision = [decision |-> "PUBLISH", reasons |-> << >>,
                                                quality_score |-> q]]
                   /\ history_file' = SaveHistory(recorded)
                   /\ wrote' = wrote \cup {"history"}
    /\ UNCHANGED << config, pc, attempt, outcome, history, memory_file, draft_html,
                    draft_json, raw_items, items, selected, article, decision,
                    gen_calls, publish_calls, accepts, starved, log, memory, remembered >>

NextTwo == PStart \/ PDecide \/ QStart \/ QDecide

SpecTwo == InitValidator /\ [][NextTwo]_vars

----------------------------------------------------------------------------
(* The checks of decide as a function of the history and the draft: decide   *)
(* is called once, on any draft, by a validator holding any history of up to *)
(* MaxRecords accepted articles.                                             *)

\* the longest history decide is called with
MaxRecords == 6

\* a body that fails the four checks of its content
PoorBody ==
    [cid |-> 4,
     frags |-> << Frag(9, "plain", 44), Frag(9, "upper", 44), Frag(9, "plain", 44) >>,
     phrases |-> {1, 2, 3},
     text_words |-> 300, markup_tokens |-> 10,
     generic_words |-> 30, tech_words |-> 0, links |-> FALSE]

\* a body of 10 sentences longer than 20 characters, 4 of which repeat an earlier
\* one up to case and runs of blanks, and one short fragment
TenBody ==
    [cid |-> 5,
     frags |-> << Frag(11, "plain", 50), Frag(12, "plain", 42), Frag(11, "upper", 50),
                  Frag(13, "plain", 35), Frag(12, "spaced", 45), Frag(14, "plain", 61),
                  Frag(11, "upper_spaced", 53), Frag(15, "plain", 28),
                  Frag(13, "plain", 35), Frag(16, "plain", 21), Frag(16, "plain", 20) >>,
     phrases |-> {5},
     text_words |-> 900, markup_tokens |-> 20,
     generic_words |-> 3, tech_words |-> 1, links |-> FALSE]

CheckBodies == DraftBodies \cup {PoorBody, TenBody}

CheckDrafts ==
    {[title |-> t, content |-> c, angle |-> g, word_count |-> WordCount(c)] :
        t \in DraftTitles, c \in CheckBodies, g \in DraftAngles}

\* the titles of the articles accepted before, oldest first
RecordedTitles ==
    << Title("chip_roadmap", "plain"), Title("gadget_week", "plain"),
       Title("eu_ai_policy", "upper"), Title("cloud_outage", "plain"),
       Title("browser_update", "plain"), Title("robot_taxi", "plain"),
       Title("satellite_launch", "plain"), Title("battery_plant", "plain") >>

\* the histories a validator may hold: up to MaxRecords records of any angles
Histories ==
    UNION {{[i \in 1..k |-> Entry(RecordedTitles[i], GoodBody, g[i])] :
               g \in [1..k -> DraftAngles]} :
           k \in 0..Min(MaxRecords, Len(RecordedTitles))}

InitChecks ==
    /\ config = GoodConfig
    /\ history \in Histories
    /\ history_file = (IF history = << >> THEN NoFile ELSE SaveHistory(history))
    /\ memory_file = NoFile
    /\ draft_html = {}
    /\ draft_json = {}
    /\ pc = "validate"
    /\ attempt = 1
    /\ outcome = "NONE"
    /\ raw_items = << >>
    /\ items = << >>
    /\ selected = << >>
    /\ article = NoArticle
    /\ decision = NoDecision
    /\ gen_calls = 0
    /\ publish_calls = 0
    /\ accepts = 0
    /\ starved = FALSE
    /\ log = "started"
    /\ memory = NoMemory
    /\ peer = NoPeer
    /\ remembered = << >>
    /\ wrote = {}

\* validator.decide(a), once, for any draft a
CDecide ==
    /\ decision = NoDecision
    /\ \E a \in CheckDrafts :
          /\ article' = a
          /\ Decide(a, {})
    /\ UNCHANGED << config, pc, attempt, outcome, memory_file, draft_html, draft_json,
                    raw_items, items, selected, gen_calls, publish_calls, accepts,
                    starved, log, memory, peer, remembered >>

NextChecks == CDecide

SpecChecks == InitChecks /\ [][NextChecks]_vars

\* ---------------------------------------------------------------------------
\* One decide call of a validator whose history is longer than the window of
\* the angle check (src/modules/validator/draft_validator.py:196-207).
\* ---------------------------------------------------------------------------

MaxAngleRecords == 12

\* the titles of the articles accepted before, oldest first
ArchiveTitles ==
    RecordedTitles
      \o << Title("quantum_lab", "plain"), Title("fiber_rollout", "plain"),
            Title("drone_rules", "plain"), Title("app_store_fees", "plain"),
            Title("data_center", "plain"), Title("open_source_fund", "plain") >>

\* histories of up to MaxAngleRecords records, of any angles
AngleHistories ==
    UNION {{[i \in 1..k |-> Entry(ArchiveTitles[i], GoodBody, g[i])] :
               g \in [1..k -> DraftAngles]} :
           k \in 0..Min(MaxAngleRecords, Len(ArchiveTitles))}

\* the drafts decided on: one new title, a body that passes and one that is short
AngleDrafts ==
    {[title |-> Title("startup_raises", "plain"), content |-> c, angle |-> g,
      word_count |-> WordCount(c)] : c \in {GoodBody, ThinBody}, g \in DraftAngles}

InitAngles ==
    /\ config = GoodConfig
    /\ history \in AngleHistories
    /\ history_file = (IF history = << >> THEN NoFile ELSE SaveHistory(history))
    /\ memory_file = NoFile
    /\ draft_html = {}
    /\ draft_json = {}
    /\ pc = "validate"
    /\ attempt = 1
    /\ outcome = "NONE"
    /\ raw_items = << >>
    /\ items = << >>
    /\ selected = << >>
    /\ article = NoArticle
    /\ decision = NoDecision
    /\ gen_calls = 0
    /\ publish_calls = 0
    /\ accepts = 0
    /\ starved = FALSE
    /\ log = "started"
    /\ memory = NoMemory
    /\ peer = NoPeer
    /\ remembered = << >>
    /\ wrote = {}

\* validator.decide(a), once
ADecide ==
    /\ decision = NoDecision
    /\ \E a \in AngleDrafts :
          /\ article' = a
          /\ Decide(a, {})
    /\ UNCHANGED << config, pc, attempt, outcome, memory_file, draft_html, draft_json,
                    raw_items, items, selected, gen_calls, publish_calls, accepts,
                    starved, log, memory, peer, remembered >>

NextAngles == ADecide

SpecAngles == InitAngles /\ [][NextAngles]_vars

\* ---------------------------------------------------------------------------
\* A validator that starts on an empty store and decides on one new draft
\* after another, each of any angle (src/modules/validator/draft_validator.py).
\* ---------------------------------------------------------------------------

MaxAccepted == 11

RotationAngles == { ANGLES[1], ANGLES[2], ANGLES[3] }

\* validator.decide(a) for a draft with a title not used before and a good body
RDecide ==
    /\ Len(history) < Min(MaxAccepted, Len(ArchiveTitles))
    /\ \E g \in RotationAngles :
          LET a == [title |-> ArchiveTitles[Len(history) + 1], content |-> GoodBody,
                    angle |-> g, word_count |-> WordCount(GoodBody)]
          IN  /\ article' = a
              /\ Decide(a, {})
    /\ UNCHANGED << config, pc, attempt, outcome, memory_file, draft_html, draft_json,
                    raw_items, items, selected, gen_calls, publish_calls, accepts,
                    starved, log, memory, peer, remembered >>

NextRotation == RDecide

SpecRotation == InitValidator /\ [][NextRotation]_vars

----------------------------------------------------------------------------
(* select_news as a function of its input: it is called once, on a list of   *)
(* pairwise distinct items spread over up to MaxCategories categories.       *)

\* the most categories, and the most items of one category, of an input
MaxCategories == 10

MaxPerCategory == 7

CategoryNames ==
    << "policy", "business", "mobile", "security", "cloud", "chips", "science",
       "gaming", "energy", "space", "health", "transport" >>

TitleBases ==
    << "eu_ai_policy", "startup_raises", "chip_roadmap", "new_phone", "gadget_week",
       "phone_review" >>

\* the authority of the source of the k-th item of category c, in hundredths
Authority(profile, c, k) ==
    CASE profile = "high" -> 90
      [] profile = "mixed" -> 10 * ((c + 2 * k) % 10)
      [] OTHER -> 0 - 10 * ((c + k) % 3)

\* n categories of per items each, interleaved as the feeds deliver them
Feed(n, per, profile) ==
    [i \in 1..(n * per) |->
        LET c == ((i - 1) % n) + 1
            k == ((i - 1) \div n) + 1
        IN  Item(TitleBases[((c + k) % Len(TitleBases)) + 1], "plain", 100 * c + k,
                 CategoryNames[c], Authority(profile, c, k))]

SelectorInputs ==
    {Feed(n, per, profile) :
        n \in 0..Min(MaxCategories, Len(CategoryNames)), per \in 1..MaxPerCategory,
        profile \in {"high", "mixed", "nonpositive"}}

\* orders random.shuffle may leave a list in: its rotations (of the n! orders, n
\* are followed; what is checked of the result does not depend on its order)
Rotations(seq) ==
    IF seq = << >> THEN {<< >>}
    ELSE {[i \in 1..Len(seq) |-> seq[((i + r - 1) % Len(seq)) + 1]] : r \in 0..(Len(seq) - 1)}

InitSelector ==
    /\ config = GoodConfig
    /\ history = << >>
    /\ history_file = NoFile
    /\ memory_file = NoFile
    /\ draft_html = {}
    /\ draft_json = {}
    /\ pc = "select"
    /\ attempt = 1
    /\ outcome = "NONE"
    /\ raw_items = << >>
    /\ items \in SelectorInputs
    /\ selected = << >>
    /\ article = NoArticle
    /\ decision = NoDecision
    /\ gen_calls = 0
    /\ publish_calls = 0
    /\ accepts = 0
    /\ starved = FALSE
    /\ log = "started"
    /\ memory = NoMemory
    /\ peer = NoPeer
    /\ remembered = << >>
    /\ wrote = {}

\* selected = select_news(items): every item gets its weight
SSelect ==
    /\ pc = "select"
    /\ selected' \in Rotations(SelectRanked(items))
    /\ items' = [i \in 1..Len(items) |-> Weighted(items[i])]
    /\ pc' = "build"
    /\ UNCHANGED << config, attempt, outcome, history, history_file, memory_file,
                    draft_html, draft_json, raw_items, article, decision, gen_calls,
                    publish_calls, accepts, starved, wrote, log, memory, peer, remembered >>

NextSelector == SSelect

SpecSelector == InitSelector /\ [][NextSelector]_vars

\* ---------------------------------------------------------------------------
\* Step 2 of an attempt on any short list of raw items
\* (src/modules/fetcher/cleaner.py).
\* ---------------------------------------------------------------------------

MaxRaw == 3

\* raw items: the same title and page under several spellings and sources, a
\* title of 12 characters and one of exactly 20
RawItemChoices ==
    { Item("eu_ai_policy", "plain", 2, "policy", 90),
      Tracked(Item("eu_ai_policy", "upper", 2, "policy", 60)),
      Item("eu_ai_policy", "plain", 3, "policy", 90),
      Item("eu_ai_policy", "padded", 2, "policy", 90),
      Item("brief", "plain", 1, "mobile", 90),
      Item("gadget_week", "plain", 4, "mobile", 50),
      Tracked(Item("gadget_week", "plain", 4, "mobile", 70)) }

RawInputs == UNION { [1..k -> RawItemChoices] : k \in 0..MaxRaw }

InitCleaner ==
    /\ config = GoodConfig
    /\ history = << >>
    /\ history_file = NoFile
    /\ memory_file = NoFile
    /\ draft_html = {}
    /\ draft_json = {}
    /\ pc = "clean"
    /\ attempt = 1
    /\ outcome = "NONE"
    /\ raw_items \in RawInputs
    /\ items = << >>
    /\ selected = << >>
    /\ article = NoArticle
    /\ decision = NoDecision
    /\ gen_calls = 0
    /\ publish_calls = 0
    /\ accepts = 0
    /\ starved = FALSE
    /\ log = "started"
    /\ memory = NoMemory
    /\ peer = NoPeer
    /\ remembered = << >>
    /\ wrote = {}

\* selected = select_news(items): every item gets its weight

NextCleaner == Clean

SpecCleaner == InitCleaner /\ [][NextCleaner]_vars

\* ---------------------------------------------------------------------------
\* select_news called twice on the same list (src/modules/selector/selector.py).
\* ---------------------------------------------------------------------------

\* the feeds the two calls are followed on: none, few, and more than TARGET_TOTAL
\* items, in buckets below and above the quota
ReselectInputs ==
    {Feed(n, per, profile) :
        n \in {2, MaxCategories - 2}, per \in {1, MaxPerCategory - 1, MaxPerCategory},
        profile \in {"high", "mixed"}}

InitReselect ==
    /\ InitSelector
    /\ items \in ReselectInputs

\* a second call of select_news on the same list (its items now carry the weight
\* the first call attached, which the second call computes again)
SSelectAgain ==
    /\ pc = "build"
    /\ selected' \in Rotations(SelectRanked(items))
    /\ items' = [i \in 1..Len(items) |-> Weighted(items[i])]
    /\ pc' = "reselected"
    /\ UNCHANGED << config, attempt, outcome, history, history_file, memory_file,
                    draft_html, draft_json, raw_items, article, decision, gen_calls,
                    publish_calls, accepts, starved, wrote, log, memory, peer, remembered >>

NextReselect == SSelect \/ SSelectAgain

SpecReselect == InitReselect /\ [][NextReselect]_vars

\* ---------------------------------------------------------------------------
\* One ArticleMemory examined on its own: the constructor loads and upgrades
\* whatever object data/memory.json holds, then remember() saves it
\* (src/modules/writer/memory.py).
\* ---------------------------------------------------------------------------

\* the fields the schema upgrade knows
MemoryFields == {"titles", "angles", "authors", "last_updated"}

\* objects with every known field and "schema", a field the code does not know
FullObjects ==
    [titles : { << >>, << Title("ai_chips", "plain") >> },
     angles : { << >>, << ANGLES[1] >> },
     authors : { << >>, << CORE_AUTHORS[1] >> },
     last_updated : { "None", "earlier" },
     schema : { "v1" }]

\* the objects data/memory.json may hold: the fields of a full object restricted
\* to any set of them (the empty object is loaded like a missing file)
StoredObjects ==
    { [k \in fields |-> obj[k]] :
        obj \in FullObjects, fields \in (SUBSET (MemoryFields \cup {"schema"})) \ {{}} }

InitMemory ==
    /\ config = GoodConfig
    /\ history = << >>
    /\ history_file = NoFile
    /\ memory_file \in {NoFile} \cup { JsonDumps(obj) : obj \in StoredObjects }
    /\ draft_html = {}
    /\ draft_json = {}
    /\ pc = "build"
    /\ attempt = 1
    /\ outcome = "NONE"
    /\ raw_items = << >>
    /\ items = << >>
    /\ selected = << >>
    /\ article = NoArticle
    /\ decision = NoDecision
    /\ gen_calls = 0
    /\ publish_calls = 0
    /\ accepts = 0
    /\ starved = FALSE
    /\ log = "started"
    /\ memory = NoMemory
    /\ peer = NoPeer
    /\ remembered = << >>
    /\ wrote = {}

\* ArticleMemory(): self.data = self._load_and_upgrade()
MLoad ==
    /\ pc = "build"
    /\ memory = NoMemory
    /\ MemoryLoads(memory_file)
    /\ memory' = LoadMemory(memory_file)
    /\ UNCHANGED << config, pc, attempt, outcome, history, history_file, memory_file,
                    draft_html, draft_json, raw_items, items, selected, article,
                    decision, gen_calls, publish_calls, accepts, starved, wrote, log,
                    peer, remembered >>

\* memory.remember(title=..., angle=..., author=...) on the loaded data
MRemember ==
    /\ pc = "build"
    /\ memory # NoMemory
    /\ \E angle \in {ANGLES[1], ANGLES[2]} :
          /\ memory' = Remember(memory, Title("ev_sales", "plain"), angle, CORE_AUTHORS[2])
          /\ remembered' = Append(remembered, angle)
    /\ memory_file' = JsonDumps(memory')
    /\ wrote' = wrote \cup {"memory"}
    /\ pc' = "links"
    /\ UNCHANGED << config, attempt, outcome, history, history_file, draft_html,
                    draft_json, raw_items, items, selected, article, decision,
                    gen_calls, publish_calls, accepts, starved, log, peer >>

NextMemory == MLoad \/ MRemember

SpecMemory == InitMemory /\ [][NextMemory]_vars

\* ---------------------------------------------------------------------------
\* An ArticleMemory created on an empty data directory, and the remember calls
\* made on it (src/modules/writer/memory.py:43-64).
\* ---------------------------------------------------------------------------

MaxRemembered == 4

InitRatio ==
    /\ InitMemory
    /\ memory_file = NoFile

\* memory.remember(title=..., angle=..., author=...), any number of times
RRemember ==
    /\ pc = "build"
    /\ memory # NoMemory
    /\ Len(remembered) < MaxRemembered
    /\ \E title \in {Title("ev_sales", "plain"), Title("ai_chips", "plain")},
          angle \in {ANGLES[1], ANGLES[2], ANGLES[3]} :
          /\ memory' = Remember(memory, title, angle, CORE_AUTHORS[1])
          /\ remembered' = Append(remembered, angle)
    /\ memory_file' = JsonDumps(memory')
    /\ wrote' = wrote \cup {"memory"}
    /\ UNCHANGED << config, pc, attempt, outcome, history, history_file, draft_html,
                    draft_json, raw_items, items, selected, article, decision,
                    gen_calls, publish_calls, accepts, starved, log, peer >>

NextRatio == MLoad \/ RRemember

SpecRatio == InitRatio /\ [][NextRatio]_vars

----------------------------------------------------------------------------
(* Properties *)

Range(seq) == {seq[i] : i \in 1..Len(seq)}

\* the title as _is_duplicate_title compares it
NormalTitle(t) == Strip(Lower(t))

\* C1: a run never makes more than MAX_ATTEMPTS generation calls, and a run in
\* which every attempt got its batch of 3 items and no decide call returned PUBLISH
\* ends EXHAUSTED after exactly MAX_ATTEMPTS generation calls.
C1_GenerationCallsBounded ==
    /\ gen_calls <= MAX_ATTEMPTS
    /\ (pc = "done" /\ outcome # "ABORTED" /\ ~starved /\ accepts = 0)
          => (outcome = "EXHAUSTED" /\ gen_calls = MAX_ATTEMPTS)

\* a run of MAX_ATTEMPTS attempts, each generating from a full batch, the last held
C1_Witness ==
    /\ pc = "done"
    /\ outcome = "EXHAUSTED"
    /\ ~starved
    /\ accepts = 0
    /\ gen_calls = MAX_ATTEMPTS
    /\ decision.decision = "HOLD"

\* C2: a run that entered the attempt loop ends after at most MAX_ATTEMPTS attempts
\* as ACCEPTED or EXHAUSTED, ACCEPTED exactly when some decide call returned PUBLISH
\* and EXHAUSTED exactly when none did.
C2_AcceptedOrExhausted ==
    (pc = "done" /\ outcome # "ABORTED")
       => /\ attempt <= MAX_ATTEMPTS
          /\ outcome \in {"ACCEPTED", "EXHAUSTED"}
          /\ outcome = "ACCEPTED" <=> accepts > 0

\* C3: a decide call that returns PUBLISH appends exactly one record to the history,
\* carrying the draft's title, its angle and the hash of its content, and leaves
\* every other record as it was.
C3_PublishAppendsOneRecord ==
    [][(decision'.decision = "PUBLISH" /\ (decision' # decision \/ history' # history))
          => /\ Len(history') = Len(history) + 1
             /\ SubSeq(history', 1, Len(history)) = history
             /\ history'[Len(history')].title = article'.title
             /\ history'[Len(history')].angle = article'.angle
             /\ history'[Len(history')].content_hash = Sha256(BodyText(article'.content))]_vars

\* a third draft was accepted by a validator of max_history 2
C3_Witness ==
    /\ decision.decision = "PUBLISH"
    /\ Len(history) > max_history
    /\ history[Len(history)].title = article.title

\* C4: a decide call that returns HOLD leaves the history as it was, in memory and
\* on disk, and does not write the history file.
C4_HoldWritesNothing ==
    [][decision'.decision = "HOLD"
          => /\ history' = history
             /\ history_file' = history_file
             /\ "history" \notin wrote']_vars

\* a draft is held by a validator whose history is not empty
C4_Witness ==
    /\ decision.decision = "HOLD"
    /\ history # << >>
    /\ history_file # NoFile
    /\ article # NoArticle

\* C5: an attempt that ended in HOLD or in an error wrote no file: neither the
\* history file, nor data/memory.json, nor a draft.
C5_FailedAttemptWritesNothing ==
    ((pc = "fetch" /\ attempt > 1) \/ (pc = "done" /\ outcome = "EXHAUSTED"))
       => wrote = {}

\* C6: publish is called at most once, only for an accepted draft that was saved;
\* an EXHAUSTED run called publish zero times and saved no draft.
C6_PublishOnceAfterSave ==
    /\ publish_calls <= 1
    /\ publish_calls = 1
          => /\ decision.decision = "PUBLISH"
             /\ Slugify(article.title) \in draft_html \cap draft_json
    /\ outcome = "EXHAUSTED"
          => /\ publish_calls = 0
             /\ draft_html = {}
             /\ draft_json = {}

\* C7: once a decide call returned PUBLISH the run only saves, publishes and stops
\* as a success: no later attempt is started.
C7_PublishIsTerminal ==
    accepts > 0
       => /\ pc \in {"save_html", "save_json", "publish", "done"}
          /\ pc = "done" => outcome = "ACCEPTED"

\* C8: after every decide call that returned PUBLISH, the history a fresh
\* DraftValidator loads from the file is the history held in memory.
C8_FileEqualsMemory ==
    decision.decision = "PUBLISH" => LoadHistory(history_file) = history

\* C9: the history the checks read never holds more than max_history records.
C9_HistoryBounded ==
    Len(history) <= max_history

\* C10: a decide call on a draft whose title equals, lower-cased and trimmed, the
\* title of a record of the history returns HOLD with the duplicate-title reason.
C10_DuplicateTitleHeld ==
    [][(/\ decision'.decision # "NONE"
        /\ (decision' # decision \/ article' # article)
        /\ \E i \in 1..Len(history) :
              NormalTitle(history[i].title) = NormalTitle(article'.title))
          => /\ decision'.decision = "HOLD"
             /\ "duplicate_title" \in Range(decision'.reasons)]_vars

\* a draft is held for its title, written differently from the recorded one, and
\* for another reason as well
C10_Witness ==
    /\ decision.decision = "HOLD"
    /\ "duplicate_title" \in Range(decision.reasons)
    /\ Len(decision.reasons) > 1
    /\ \A i \in 1..Len(history) : history[i].title # article.title

\* the number of times a reason occurs in a reasons list
ReasonCount(r, tag) == Cardinality({i \in 1..Len(r) : r[i] = tag})

\* C11: decide returns HOLD exactly when its reasons list is not empty and PUBLISH
\* exactly when it is empty.
C11_HoldIffReasons ==
    decision.decision # "NONE"
       => /\ decision.decision \in {"HOLD", "PUBLISH"}
          /\ decision.decision = "HOLD" <=> decision.reasons # << >>
          /\ decision.decision = "PUBLISH" <=> decision.reasons = << >>

\* a draft that passes every check only with its block of links, accepted by a
\* validator that holds records
C11_Witness ==
    /\ decision.decision = "PUBLISH"
    /\ decision.reasons = << >>
    /\ article.content = WithLinks(ThinBody)
    /\ Len(history) > 1

\* C12: the reasons decide returns hold exactly one reason for every check the
\* draft fails against the history decide was called with, and none for a check it
\* passes.
C12_ReasonsCumulative ==
    [][(decision' # decision /\ decision'.decision # "NONE")
          => LET r == decision'.reasons
                 c == article'.content
                 rep == DetectRepetition(c)
                 q == CalculateQualityScore(c)
                 One(tag, failed) == ReasonCount(r, tag) = (IF failed THEN 1 ELSE 0)
             IN  /\ One("duplicate_title",
                        \E i \in 1..Len(history) :
                           NormalTitle(history[i].title) = NormalTitle(article'.title))
                 /\ One("repetition", 10 * rep[1] > 3 * rep[2])
                 /\ One("generic", Cardinality(c.phrases) >= 3)
                 /\ One("quality", 10 * q[1] < 6 * q[2])
                 /\ One("angle", AngleOverused(history, article'.angle))
                 /\ One("word_count", WordCount(c) < 700)
                 /\ Range(r) \subseteq {"duplicate_title", "repetition", "generic",
                                         "quality", "angle", "word_count"}]_vars

\* a draft that fails the six checks is held for six reasons
C12_Witness ==
    /\ decision.decision = "HOLD"
    /\ Len(decision.reasons) = 6
    /\ article.content = PoorBody

\* C13: a decide call made while the history holds fewer than 5 records returns no
\* angle reason.
C13_NoAngleReasonBelowFive ==
    [][(decision' # decision /\ Len(history) < 5)
          => "angle" \notin Range(decision'.reasons)]_vars

\* a draft held by a validator whose 4 records all have the draft's angle
C13_Witness ==
    /\ decision.decision = "HOLD"
    /\ Len(history) = 4
    /\ \A i \in 1..Len(history) : history[i].angle = article.angle
    /\ "angle" \notin Range(decision.reasons)

\* the fragments of a body that are longer than 20 characters, by position
LongFragments(content) == {i \in 1..Len(content.frags) : content.frags[i].len > 20}

\* the distinct normalized forms of those fragments
DistinctSentences(content) ==
    {NormalizedSentence(content.frags[i]) : i \in LongFragments(content)}

\* C18: for a body of at least 3 qualifying sentences the repetition ratio is the
\* number of qualifying sentences whose normalized form occurred earlier in the
\* body (the sentences less the distinct forms) over the number of qualifying
\* sentences, and the repetition reason is given when it exceeds 0.3.
C18_RepetitionRatio ==
    (decision.decision # "NONE" /\ Cardinality(LongFragments(article.content)) >= 3)
       => LET total == Cardinality(LongFragments(article.content))
              repeated == total - Cardinality(DistinctSentences(article.content))
              rep == DetectRepetition(article.content)
          IN  /\ rep[2] > 0
              /\ rep[1] * total = repeated * rep[2]
              /\ "repetition" \in Range(decision.reasons) <=> 10 * repeated > 3 * total

\* the body of 10 sentences with 4 repeats has ratio 4/10 and is held for it
C18_Witness ==
    /\ decision.decision = "HOLD"
    /\ article.content = TenBody
    /\ Cardinality(LongFragments(article.content)) = 10
    /\ 10 * DetectRepetition(article.content)[1] = 4 * DetectRepetition(article.content)[2]
    /\ "repetition" \in Range(decision.reasons)

\* C19: for a body of fewer than 3 qualifying sentences the repetition ratio is 0
\* and decide gives no repetition reason.
C19_FewSentencesNoRepetition ==
    (decision.decision # "NONE" /\ Cardinality(LongFragments(article.content)) < 3)
       => /\ DetectRepetition(article.content)[1] = 0
          /\ "repetition" \notin Range(decision.reasons)

\* a body whose only two qualifying sentences are the same sentence
C19_Witness ==
    /\ decision.decision # "NONE"
    /\ Cardinality(LongFragments(article.content)) = 2
    /\ Cardinality(DistinctSentences(article.content)) = 1
    /\ "repetition" \notin Range(decision.reasons)

\* an item as it was before select_news gave it its weight
Unweighted(item) ==
    [title |-> item.title, link |-> item.link, category |-> item.category,
     source_authority |-> item.source_authority]

\* C14: select_news never returns more than TARGET_TOTAL items.
C14_AtMostTargetTotal ==
    pc = "build" => Len(selected) <= TARGET_TOTAL

\* C15: for a list of pairwise distinct items, select_news returns only items of
\* the list and none of them twice.
C15_SelectedFromInputOnce ==
    [][(pc = "select" /\ pc' = "build"
        /\ \A i, j \in 1..Len(items) : items[i] = items[j] => i = j)
          => /\ \A i \in 1..Len(selected') : Unweighted(selected'[i]) \in Range(items)
             /\ \A i, j \in 1..Len(selected') : selected'[i] = selected'[j] => i = j]_vars

\* a selection that needed the top-up: several categories, fewer than
\* TARGET_TOTAL items in all, every one of them selected
C15_Witness ==
    /\ pc = "build"
    /\ Len(items) > CATEGORY_QUOTA
    /\ Len(selected) = Len(items)
    /\ Cardinality({items[i].category : i \in 1..Len(items)}) > 1

\* C16: every item select_news scored, and so every item it returns, has a weight
\* of at least 0.1 (10 hundredths).
C16_WeightFloor ==
    pc = "build"
       => /\ \A i \in 1..Len(items) : items[i].weight >= 10
          /\ \A i \in 1..Len(selected) : selected[i].weight >= 10

\* a selected item of negative authority with a low-signal title, at the floor
C16_Witness ==
    /\ pc = "build"
    /\ \E i \in 1..Len(selected) :
          /\ selected[i].source_authority < 0
          /\ AnyKeyword(selected[i].title, {"review"})
          /\ selected[i].weight = 10

\* C17: select_news on an empty list returns an empty list.
C17_EmptyInEmptyOut ==
    [][(pc = "select" /\ pc' = "build" /\ items = << >>)
          => (selected' = << >> /\ outcome' = "NONE")]_vars

\* select_news has returned for an empty list
C17_Witness ==
    /\ pc = "build"
    /\ items = << >>
    /\ selected = << >>

\* C20: when fetch_all or build_article raises in attempt k, the run is neither
\* aborted nor accepted: attempt k + 1 starts if k < MAX_ATTEMPTS, and otherwise
\* the run ends EXHAUSTED.
C20_FailureConsumesOneAttempt ==
    [][((pc = "fetch" /\ pc' # "clean") \/ (pc = "build" /\ pc' # "links"))
          => IF attempt < 5
             THEN /\ attempt' = attempt + 1
                  /\ pc' = "fetch"
                  /\ outcome' = "NONE"
             ELSE /\ attempt' = attempt
                  /\ pc' = "done"
                  /\ outcome' = "EXHAUSTED"]_vars

\* attempt 4 is about to start: of the first three attempts one got no batch and
\* two failed in build_article (no call of it returned: data/memory.json is absent)
C20_Witness ==
    /\ pc = "fetch"
    /\ attempt = 4
    /\ outcome = "NONE"
    /\ starved
    /\ gen_calls = 2
    /\ memory_file = NoFile
    /\ accepts = 0

\* C21: when publish raised, the run did not end as a success: it went on to the
\* next attempt or ended EXHAUSTED.
C21_PublishFailureRetries ==
    log = "publish_failed" => (outcome # "ACCEPTED" /\ (pc = "fetch" \/ outcome = "EXHAUSTED"))

\* a setting or credential the run requires is missing
MissingSetting ==
    \/ ~config.api_key
    \/ ~config.sources_yaml
    \/ ~config.rules_yaml
    \/ (~config.dry_run /\ ~config.credentials)

\* C22: a run that lacks a required setting or credential is aborted before any
\* attempt: no attempt is started and no fetch, generation or validation call is made.
C22_MissingSettingAborts ==
    MissingSetting
       => /\ pc \in {"init", "done"}
          /\ attempt = 0
          /\ gen_calls = 0
          /\ decision = NoDecision
          /\ pc = "done" => outcome = "ABORTED"

\* the steps of an attempt, in the order of the loop body
Steps ==
    << "fetch", "clean", "select", "build", "links", "validate", "save_html",
       "save_json", "publish" >>

\* C26: the steps of an attempt follow one another in the order fetch, clean,
\* select, generate, validate, save, publish, each starting from the result of the
\* one before; a new attempt starts at fetch with none of the lists of the attempt
\* before.
C26_StepsInOrder ==
    [][/\ pc' # pc
          => \/ pc = "init" /\ pc' \in {"fetch", "done"}
             \/ \E i \in 1..(Len(Steps) - 1) : pc = Steps[i] /\ pc' = Steps[i + 1]
             \/ pc' = "fetch" /\ attempt' = attempt + 1
             \/ pc' = "done"
       /\ (attempt' # attempt /\ attempt > 0)
          => /\ attempt' = attempt + 1
             /\ pc' = "fetch"
             /\ raw_items' = << >> /\ items' = << >> /\ selected' = << >>
       /\ pc' = "clean" => raw_items' # << >>
       /\ pc' = "select" => items' # << >>
       /\ pc' = "build" => Len(selected') >= 3
       /\ pc' = "links" => (pc = "build" /\ article'.title = selected[1].title)
       /\ pc' = "save_html" => decision'.decision = "PUBLISH"
       /\ pc' = "publish" => Slugify(article'.title) \in draft_html' \cap draft_json'
      ]_vars

\* a second attempt went through every step and published
C26_Witness ==
    /\ pc = "done"
    /\ outcome = "ACCEPTED"
    /\ attempt = 2
    /\ gen_calls = 2
    /\ log = "published"

\* C27: an attempt in which fetch_all returns no item, clean_items leaves none or
\* select_news returns fewer than 3 makes no generation and no validation call,
\* raises nothing, and is counted: the next attempt starts, or after attempt
\* MAX_ATTEMPTS the run ends EXHAUSTED.
C27_SmallBatchIsRetry ==
    [][(\/ pc = "fetch" /\ log' = "no_items"
        \/ pc = "clean" /\ CleanItems(raw_items) = << >>
        \/ pc = "select" /\ Len(SelectRanked(items)) < 3)
          => /\ gen_calls' = gen_calls
             /\ decision' = NoDecision
             /\ log' # "error"
             /\ IF attempt < 5
                THEN attempt' = attempt + 1 /\ pc' = "fetch" /\ outcome' = "NONE"
                ELSE attempt' = attempt /\ pc' = "done" /\ outcome' = "EXHAUSTED"
      ]_vars

\* a run ends EXHAUSTED on a selection of fewer than 3 items without any
\* generation call
C27_Witness ==
    /\ pc = "done"
    /\ outcome = "EXHAUSTED"
    /\ log = "few_selected"
    /\ gen_calls = 0

\* the history file or the memory file on disk is unparseable or of another shape
StorageCorrupt ==
    \/ history_file \in {Unparseable, OtherJson}
    \/ memory_file \in {Unparseable, OtherJson}

\* C23: while a corrupt history or memory file is on disk no attempt is executed:
\* the run is at its start or has ended, with no generation call, no decision, no
\* file written and no publish call.
C23_CorruptStorageAborts ==
    StorageCorrupt
       => /\ pc \in {"init", "done"}
          /\ attempt = 0
          /\ gen_calls = 0
          /\ decision = NoDecision
          /\ wrote = {}
          /\ publish_calls = 0

\* the object found in the memory file ({} when there is no file)
StoredObject == IF memory_file = NoFile THEN [k \in {} |-> << >>] ELSE memory_file[2]

\* C25: a memory file holding an object loads whatever fields it has: the loaded
\* data has every field of the stored object with its stored value, unknown
\* fields included, and each of titles, angles, authors, last_updated that the
\* object lacks with its default ([] for the lists, None for last_updated).
C25_LoadDefaultsMissingFields ==
    /\ (pc = "build" /\ memory = NoMemory) => ENABLED MLoad
    /\ (pc = "build" /\ memory # NoMemory)
          => /\ DOMAIN memory = DOMAIN StoredObject \cup MemoryFields
             /\ \A k \in DOMAIN StoredObject : memory[k] = StoredObject[k]
             /\ \A k \in MemoryFields \ DOMAIN StoredObject :
                   memory[k] = (IF k = "last_updated" THEN "None" ELSE << >>)

\* a stored object with an unknown field and without angles and last_updated has
\* been loaded
C25_Witness ==
    /\ pc = "build"
    /\ memory # NoMemory
    /\ memory_file # NoFile
    /\ DOMAIN StoredObject = {"titles", "authors", "schema"}
    /\ StoredObject.titles # << >>

\* the number of records of the persisted history with title t
Persisted(t) ==
    LET h == LoadHistory(history_file)
    IN  Cardinality({ i \in 1..Len(h) : h[i].title = t })

\* C24: when both processes have finished, the persisted history has exactly one
\* record for the draft each of them accepted, and they did not accept the same
\* title.
C24_AcceptedOncePersisted ==
    (pc = "done" /\ peer.decision # NoDecision)
       => /\ decision.decision = "PUBLISH" => Persisted(article.title) = 1
          /\ peer.decision.decision = "PUBLISH" => Persisted(peer.title) = 1
          /\ (decision.decision = "PUBLISH" /\ peer.decision.decision = "PUBLISH")
                => NormalTitle(article.title) # NormalTitle(peer.title)

\* C28: the three items handed to build_article, selected[:3], are the three
\* highest-scored items of the selection: none of the other selected items has a
\* higher weight than one of them.
C28_BatchIsTopThree ==
    (pc = "build" /\ Len(selected) >= 3)
       => \A i \in 1..3 : \A j \in 4..Len(selected) :
             selected[i].weight >= selected[j].weight

\* the number of items of seq in category c
InCategory(seq, c) == Cardinality({ i \in 1..Len(seq) : seq[i].category = c })

\* the input items select_news did not return
Omitted == { it \in Range(items) : it \notin Range(selected) }

\* C29: select_news returns, for every category of the input, at least
\* min(CATEGORY_QUOTA, bucket size) items of it, and no omitted item has a higher
\* weight than a returned item of its category.
C29_CategoryQuotaFromTop ==
    pc = "build"
       => /\ \A c \in { it.category : it \in Range(items) } :
                InCategory(selected, c) >= Min(5, InCategory(items, c))
          /\ \A x \in Omitted : \A y \in Range(selected) :
                y.category = x.category => x.weight <= y.weight

\* a feed with buckets larger than the quota and items of several weights, some
\* of them omitted
C29_Witness ==
    /\ pc = "build"
    /\ Omitted # {}
    /\ \E c \in { it.category : it \in Range(items) } : InCategory(items, c) > 5
    /\ \E x \in Omitted : \E y \in Range(selected) :
          y.category = x.category /\ x.weight < y.weight

\* the place of items[i] in its bucket sorted by descending weight (sorted is stable)
BucketRank(i) ==
    1 + Cardinality({ j \in 1..Len(items) :
            /\ items[j].category = items[i].category
            /\ \/ items[j].weight > items[i].weight
               \/ (items[j].weight = items[i].weight /\ j < i) })

\* the items the category-first pass takes
QuotaItems == { items[i] : i \in { j \in 1..Len(items) : BucketRank(j) <= 5 } }

\* C30: when the category-first pass takes fewer than TARGET_TOTAL items,
\* select_news returns exactly min(TARGET_TOTAL, number of input items) items, the
\* added ones being the heaviest of the rest: no omitted item has a higher weight
\* than an added one; an input of at most TARGET_TOTAL items is returned in full.
C30_TopUpToTarget ==
    pc = "build"
       => /\ Cardinality(QuotaItems) < 45
             => /\ Len(selected) = Min(45, Len(items))
                /\ QuotaItems \subseteq Range(selected)
                /\ \A x \in Omitted : \A y \in Range(selected) \ QuotaItems :
                      x.weight <= y.weight
          /\ Len(items) <= 45
             => (Range(selected) = Range(items) /\ Len(selected) = Len(items))

\* a feed of more than TARGET_TOTAL items whose category-first pass takes fewer
\* than TARGET_TOTAL: the top-up added items and left others out
C30_Witness ==
    /\ pc = "build"
    /\ Len(items) > 45
    /\ Cardinality(QuotaItems) < 45
    /\ Len(selected) = 45
    /\ Omitted # {}

\* the place of item x in the input list (the items of a feed are pairwise distinct)
InputIndex(x) == CHOOSE i \in 1..Len(items) : items[i] = x

\* between an omitted item and a returned one of equal weight that competed for the
\* same place (same bucket, or the global top-up), the returned one came first in
\* the input
TiesByInputOrder ==
    LET quota == QuotaItems
        returned == Range(selected)
    IN  \A x \in Omitted : \A y \in returned :
            (x.weight = y.weight /\ (x.category = y.category \/ y \notin quota))
               => InputIndex(y) < InputIndex(x)

RecentRecords == { i \in 1..Len(history) : i > Len(history) - 10 }

\* C32: a decide call on a history of at least 5 records gives the angle reason
\* exactly when more than 40% of the most recent 10 records (of all of them, if
\* fewer) have the draft's angle; older records play no part.
C32_AngleReasonIffOverFortyPercent ==
    [][(decision' # decision /\ Len(history) >= 5)
          => ("angle" \in Range(decision'.reasons)
                <=> 10 * Cardinality({ i \in RecentRecords :
                                          history[i].angle = article'.angle })
                       > 4 * Cardinality(RecentRecords))
      ]_vars

\* a history of 12 records: the two oldest and 4 of the last 10 have the draft's
\* angle, and the angle reason is not given
C32_Witness ==
    /\ decision # NoDecision
    /\ Len(history) = 12
    /\ history[1].angle = article.angle
    /\ history[2].angle = article.angle
    /\ Cardinality({ i \in RecentRecords : history[i].angle = article.angle }) = 4
    /\ "angle" \notin Range(decision.reasons)

\* words of text the "Related Articles" block adds to a body: the 2 of its heading
\* and the 4 of the link's title (the date and a one-word slug)
LINK_TEXT_WORDS == 6

\* the whitespace-delimited tokens of a body's text, its markup stripped
TextWords(content) ==
    content.text_words + (IF content.links THEN LINK_TEXT_WORDS ELSE 0)

\* C33: decide gives the word-count reason exactly when the text of the body,
\* markup stripped, has fewer than 700 words.
C33_WordCountOfStrippedText ==
    decision # NoDecision
       => ("word_count" \in Range(decision.reasons) <=> TextWords(article.content) < 700)

\* C34: after remember calls r1..rn on a memory created empty, angle_usage_ratio(a)
\* is the number of calls whose angle was a divided by n, and 0 when n = 0.
C34_RatioIsShareOfCalls ==
    memory # NoMemory
       => \A a \in {ANGLES[1], ANGLES[2], ANGLES[3]} :
             LET ratio == AngleUsageRatio(memory, a)
                 calls == Cardinality({ i \in 1..Len(remembered) : remembered[i] = a })
             IN  IF remembered = << >> THEN ratio[1] = 0
                 ELSE ratio[1] * Len(remembered) = calls * ratio[2]

\* the key deduplicate gives an item: its lower-cased title and its link reduced
\* to scheme://host/path
DedupKey(item) == << Lower(item.title), NormalizeUrl(item.link) >>

\* the place in the input of the first item with the key of output item n
FirstWithKey(input, output, n) ==
    CHOOSE i \in 1..Len(input) :
        /\ DedupKey(input[i]) = DedupKey(output[n])
        /\ \A j \in 1..(i - 1) : DedupKey(input[j]) # DedupKey(output[n])

\* C35: the output of clean_items has no two items of one key; each output item
\* is the first input item of its key (its link normalized), with a title of at
\* least 20 characters; the output keeps the input order; and no key of an input
\* item with such a title is missing.
C35_CleanKeepsFirstOfEachKey ==
    [][pc = "clean"
          => /\ \A n, m \in 1..Len(items') :
                   n < m => /\ DedupKey(items'[n]) # DedupKey(items'[m])
                            /\ FirstWithKey(raw_items, items', n)
                                  < FirstWithKey(raw_items, items', m)
             /\ \A n \in 1..Len(items') :
                   /\ \E i \in 1..Len(raw_items) : DedupKey(raw_items[i]) = DedupKey(items'[n])
                   /\ items'[n] = [raw_items[FirstWithKey(raw_items, items', n)]
                                     EXCEPT !.link = NormalizeUrl(@)]
                   /\ TitleLen(items'[n].title) >= 20
             /\ \A i \in 1..Len(raw_items) :
                   TitleLen(raw_items[i].title) >= 20
                      => \E n \in 1..Len(items') : DedupKey(items'[n]) = DedupKey(raw_items[i])
      ]_vars

\* three raw items were cleaned to two: the second had the key of the first under
\* another spelling and source, the third a title of exactly 20 characters
C35_Witness ==
    /\ pc = "select"
    /\ Len(raw_items) = 3
    /\ Len(items) = 2
    /\ DedupKey(raw_items[1]) = DedupKey(raw_items[2])
    /\ raw_items[1] # raw_items[2]
    /\ TitleLen(raw_items[3].title) = 20

C37_OneRecordPerRun ==
    /\ accepts <= 1
    /\ Len(history) <= 1

\* no two records of h have the same title up to case and surrounding blanks
DistinctTitles(h) ==
    \A i, j \in 1..Len(h) : i < j => NormalTitle(h[i].title) # NormalTitle(h[j].title)

\* C38: a validator keeps in memory every record it accepted (a decide call only
\* appends to its history), a decide call on a title that equals a record's title
\* up to case and surrounding blanks returns HOLD, and so its history never holds
\* two records of one normalized title.
C38_NoTitleAcceptedTwice ==
    [][/\ DistinctTitles(history')
       /\ decision'.decision # "NONE"
             => /\ Len(history') >= Len(history)
                /\ FirstN(history', Len(history)) = history
                /\ (\E i \in 1..Len(history) :
                       NormalTitle(history[i].title) = NormalTitle(article'.title))
                      => (decision'.decision = "HOLD" /\ history' = history)
      ]_vars

\* a validator holding three records, the oldest of which is no longer in the
\* history file, has held a draft whose title is that record's in another case
C38_Witness ==
    /\ Len(history) = 3
    /\ Len(LoadHistory(history_file)) = 2
    /\ decision.decision = "HOLD"
    /\ NormalTitle(article.title) = NormalTitle(history[1].title)
    /\ article.title # history[1].title

\* the number of records among the most recent 10 that have angle g
RecentWithAngle(g) == Cardinality({ i \in RecentRecords : history[i].angle = g })

\* C39: in a history built from an empty store by decide calls, no angle has
\* more than 5 of the most recent 10 records.
C39_NoAngleOverFiveOfTen ==
    \A g \in RotationAngles : RecentWithAngle(g) <= 5

\* a history of more than 10 records in which an angle has 5 of the last 10
C39_Witness ==
    /\ Len(history) > 10
    /\ \E g \in RotationAngles : RecentWithAngle(g) = 5

====
